---- MODULE Spec2Model ----
(***************************************************************************)
(* ccsniffer.py: the CC2531 controller (power, channel, start/stop of      *)
(* streaming), its background receive loop and the frame decoder.          *)
(*                                                                         *)
(* One caller thread runs __init__, start, stop, set_channel and __del__   *)
(* one statement at a time; every thread created by start() runs recv()    *)
(* one statement at a time.  A control transfer and a bulk read each take  *)
(* two steps (issued, completed), so "in flight" is a state.               *)
(* Control transfers are taken to succeed; a bulk read returns a buffer    *)
(* or raises usb.core.USBError (time-out or any other transport failure). *)
(* Sequences are 1-based: Python's packet[i] is packet[i + 1] here.        *)
(***************************************************************************)
EXTENDS Integers, Sequences, FiniteSets, TLC

\* ---- bounds of the model -------------------------------------------------
MaxThreads == 3        \* threads that start() may create in one behaviour
MaxPolls == 2          \* "not powered" answers counted (more are not told apart)
MaxPowerOffs == 2      \* power-off commands sent in one behaviour
MaxBufLen == 13        \* longest buffer put to parse_packet (the read: 4096)

\* ---- class constants (ccsniffer.py 36-50) --------------------------------
DEFAULT_CHANNEL == 11
DIR_OUT == 64
DIR_IN == 192
GET_IDENT == 192
SET_POWER == 197
GET_POWER == 198
SET_START == 208
SET_STOP == 209
SET_CHAN == 210
MIN_CHANNEL == 11
MAX_CHANNEL == 26
POWERED == 4
RSSI_OFFSET == 73

\* ---- inputs --------------------------------------------------------------
\* channel arguments offered to __init__ and set_channel
ChanInputs == {10, 11, 15, 27}

\* buffers a bulk read may return (bytes 0..255)
BufEmpty == << >>
BufStatus == <<1, 0, 0>>
BufBadLen == <<0, 9, 0, 0>>
BufTrunc == <<0, 2, 0, 0, 0>>
BufFrame == <<0, 8, 0, 1, 2, 3, 4, 3, 170, 214, 133>>
Buffers == {BufEmpty, BufStatus, BufBadLen, BufTrunc, BufFrame}

Threads == 1 .. MaxThreads
None == 0              \* self.thread = None
NoPkt == [channel |-> 0, header |-> << >>, payload |-> << >>,
          rssi |-> 0, crc_ok |-> FALSE, correlation |-> 0]
NoXfer == << >>        \* no control transfer in flight

VARIABLES
    phase,      \* "new" | "ready" | "failed": before / after __init__
    dev,        \* self.dev is a device (TRUE) or None (FALSE)
    channel,    \* self.channel
    running,    \* self.running
    thread,     \* self.thread: None or a thread id
    pc,         \* the caller's position; "idle" between calls
    op,         \* the top-level call in progress or last returned
    arg,        \* channel argument of __init__ / set_channel
    was_running,\* local of set_channel
    nested,     \* stop/start were called by set_channel
    result,     \* how the last call ended: "ok" or the exception raised
    pre,        \* snapshot of the controller at entry of the call
    cxfer,      \* control transfer in flight on the device handle
    oplog,      \* commands (DIR_OUT transfers) sent since the top-level call began
    polls,      \* power-status polls answered "not powered", up to MaxPolls
    poweroffs,  \* power-off commands sent so far
    nthreads,   \* threads created so far
    tpc,        \* position of each thread in recv()
    exited,     \* how the latest recv() to terminate ended
    delivered,  \* the packet last handed to self.callback
    devchan,    \* the channel of the last select-channel command sent
    frame,      \* a buffer put to parse_packet and to the body of recv's loop
    parsed,     \* what parse_packet(frame) gave
    handled     \* what lines 118-121 did with ret = frame

vars == <<phase, dev, channel, running, thread, pc, op, arg, was_running,
          nested, result, pre, cxfer, oplog, polls, poweroffs,
          nthreads, tpc, exited, delivered, devchan, frame, parsed, handled>>

ctl == <<phase, dev, channel, running, thread>>
call == <<op, arg, was_running, nested, result, pre>>
usb == <<cxfer, oplog>>
cnt == <<polls, poweroffs>>
bg == <<nthreads, tpc, exited, delivered>>
obs == <<devchan, frame, parsed, handled>>

\* ---- helpers -------------------------------------------------------------
Max(a, b) == IF a >= b THEN a ELSE b
Min(a, b) == IF a <= b THEN a ELSE b

\* Python's s[lo:hi] on a sequence (indices 0-based, negative = from the end)
PyIndex(n, i) == IF i < 0 THEN Max(n + i, 0) ELSE Min(i, n)
PySlice(s, lo, hi) ==
    LET a == PyIndex(Len(s), lo)
        b == PyIndex(Len(s), hi)
    IN  IF a < b THEN SubSeq(s, a + 1, b) ELSE << >>

\* Python's s[i] for i >= 0; defined only when i < len(s)
PyAt(s, i) == s[i + 1]

\* ---- Packet (ccsniffer.py 194-203) ---------------------------------------
\* the timestamp (time.gmtime()) is the environment's clock and is left out
Packet(ch, header, payload, rssi, crc_ok, corr) ==
    [channel |-> ch, header |-> header, payload |-> payload,
     rssi |-> rssi, crc_ok |-> crc_ok, correlation |-> corr]

\* ---- parse_packet (ccsniffer.py 148-182) ---------------------------------
\* an rssi that reads fcs1 as an unsigned byte
Rssi_unsigned(fcs1) == fcs1 - RSSI_OFFSET

\* line 174
Rssi(fcs1) == ((fcs1 + 128) % 256) - 128 - RSSI_OFFSET
CrcOk(fcs2) == ((fcs2 \div 128) % 2) * 128 > 0
Corr(fcs2) == fcs2 % 128

\* a decoder that checks the frame length only, not the payload length
parse_packet_nopaylen(packet, ch) ==
    IF Len(packet) < 2
    THEN [kind |-> "error", pkt |-> NoPkt]
    ELSE IF Len(packet) - 3 # PyAt(packet, 1)
    THEN [kind |-> "none", pkt |-> NoPkt]
    ELSE IF Len(packet) < 8
    THEN [kind |-> "error", pkt |-> NoPkt]
    ELSE LET fcs == PySlice(packet, -2, Len(packet))
         IN  [kind |-> "packet",
              pkt |-> Packet(ch, PySlice(packet, 3, 7),
                             PySlice(packet, 8, -2), Rssi(fcs[1]),
                             CrcOk(fcs[2]), Corr(fcs[2]))]

\* kind = "packet": a Packet is returned; "none": None is returned;
\* "error": an IndexError leaves parse_packet
parse_packet(packet, ch) ==
    IF Len(packet) < 2
    THEN [kind |-> "error", pkt |-> NoPkt]
    ELSE IF Len(packet) - 3 # PyAt(packet, 1)
    THEN [kind |-> "none", pkt |-> NoPkt]
    ELSE LET header == PySlice(packet, 3, 7)
             payload == PySlice(packet, 8, -2)
         IN  IF Len(packet) < 8
             THEN [kind |-> "error", pkt |-> NoPkt]
             ELSE IF Len(payload) # PyAt(packet, 7) - 2
             THEN [kind |-> "none", pkt |-> NoPkt]
             ELSE LET fcs == PySlice(packet, -2, Len(packet))
                  IN  [kind |-> "packet",
                       pkt |-> Packet(ch, header, payload, Rssi(fcs[1]),
                                      CrcOk(fcs[2]), Corr(fcs[2]))]

\* ---- the device handle ---------------------------------------------------
\* a control transfer: <<bmRequestType, bRequest, wIndex, data>>
Ctrl(dir, req, idx, data) == <<dir, req, idx, data>>

\* bulk reads in flight
Reading == {t \in Threads : tpc[t] = "read"}
\* threads whose recv() has not returned
Alive == {t \in Threads : tpc[t] \in {"loop", "read", "sink"}}
\* transfers in flight on the handle
InFlight == (IF cxfer # NoXfer THEN 1 ELSE 0) + Cardinality(Reading)

Snapshot == [channel |-> channel, running |-> running, thread |-> thread]

\* a range check that lets one channel too many through
ValidChannel_upto27(c) == c >= MIN_CHANNEL /\ c <= MAX_CHANNEL + 1

\* line 128
ValidChannel(c) == c >= MIN_CHANNEL /\ c <= MAX_CHANNEL

\* parse_packet / the loop body not applied yet
NoParse == [kind |-> "unset", pkt |-> NoPkt]
NoHandle == [next |-> "unset", cause |-> "none", decodes |-> 0, sinks |-> 0,
             pkt |-> NoPkt]

\* the state with the controller in phase ph on channel ch and buffer f at
\* hand: nothing running, no thread, no transfer issued
InitWith(ph, ch, f) ==
    /\ phase = ph
    /\ dev = (ph = "ready")
    /\ channel = ch
    /\ devchan = (IF ph = "ready" THEN ch ELSE 0)
    /\ frame = f
    /\ parsed = NoParse
    /\ handled = NoHandle
    /\ running = FALSE
    /\ thread = None
    /\ pc = "idle"
    /\ op = "none"
    /\ arg = DEFAULT_CHANNEL
    /\ was_running = FALSE
    /\ nested = FALSE
    /\ result = "none"
    /\ pre = [channel |-> DEFAULT_CHANNEL, running |-> FALSE, thread |-> None]
    /\ cxfer = NoXfer
    /\ oplog = << >>
    /\ polls = 0
    /\ poweroffs = 0
    /\ nthreads = 0
    /\ tpc = [t \in Threads |-> "new"]
    /\ exited = "none"
    /\ delivered = NoPkt

\* before construction
Init == InitWith("new", DEFAULT_CHANNEL, << >>)

\* issue a control transfer / see it complete
Issue(x) ==
    /\ cxfer' = x
    /\ oplog' = IF x[1] = DIR_OUT THEN Append(oplog, x) ELSE oplog
Complete == cxfer' = NoXfer /\ oplog' = oplog

\* a top-level call returns (normally or by an exception); the locals of the
\* call are gone
Return(r) ==
    /\ pc' = "idle"
    /\ result' = r
    /\ was_running' = FALSE
    /\ nested' = FALSE

\* ---- __init__ (ccsniffer.py 52-89) ---------------------------------------
\* lines 54-58: the fields are assigned before anything is validated
init(c) ==
    /\ phase = "new" /\ pc = "idle" /\ op = "none"
    /\ dev' = FALSE
    /\ channel' = c
    /\ thread' = None
    /\ running' = FALSE
    /\ op' = "init" /\ arg' = c /\ result' = "none"
    /\ pc' = "init_find"
    /\ UNCHANGED <<phase, was_running, nested, pre, usb, cnt, bg>>
    /\ UNCHANGED obs

\* lines 60-72: usb.core.find, set_configuration, get_string
init_find(found) ==
    /\ pc = "init_find"
    /\ IF found = "found"
       THEN /\ dev' = TRUE /\ pc' = "init_ident"
            /\ UNCHANGED <<phase, result, was_running, nested>>
       ELSE /\ Return(IF found = "absent" THEN "IOError" ELSE "TypeError")
            /\ phase' = "failed"
            /\ dev' = dev
    /\ UNCHANGED <<channel, running, thread, op, arg, pre, usb, cnt, bg>>
    /\ UNCHANGED obs

\* line 75
init_ident ==
    /\ pc = "init_ident"
    /\ Issue(Ctrl(DIR_IN, GET_IDENT, 0, << >>))
    /\ pc' = "init_ident_w"
    /\ UNCHANGED <<ctl, call, cnt, bg>>
    /\ UNCHANGED obs

init_ident_done ==
    /\ pc = "init_ident_w"
    /\ Complete
    /\ pc' = "init_power"
    /\ UNCHANGED <<ctl, call, cnt, bg>>
    /\ UNCHANGED obs

\* line 78
init_power ==
    /\ pc = "init_power"
    /\ Issue(Ctrl(DIR_OUT, SET_POWER, 4, << >>))
    /\ pc' = "init_power_w"
    /\ UNCHANGED <<ctl, call, cnt, bg>>
    /\ UNCHANGED obs

init_power_done ==
    /\ pc = "init_power_w"
    /\ Complete
    /\ pc' = "init_poll"
    /\ UNCHANGED <<ctl, call, cnt, bg>>
    /\ UNCHANGED obs

\* line 82
init_poll ==
    /\ pc = "init_poll"
    /\ Issue(Ctrl(DIR_IN, GET_POWER, 0, << >>))
    /\ pc' = "init_poll_w"
    /\ UNCHANGED <<ctl, call, cnt, bg>>
    /\ UNCHANGED obs

\* lines 83-84, 89: leave the loop when power_status[0] == 4 and call
\* set_channel(channel), else sleep and poll again
init_poll_done(status) ==
    /\ pc = "init_poll_w"
    /\ Complete
    /\ IF status = POWERED
       THEN /\ pc' = "sc_check"
            /\ pre' = Snapshot
            /\ polls' = 0
       ELSE /\ polls' = Min(polls + 1, MaxPolls)
            /\ pc' = "init_poll"
            /\ pre' = pre
    /\ UNCHANGED <<ctl, op, arg, was_running, nested, result, poweroffs, bg>>
    /\ UNCHANGED obs

\* ---- set_channel (ccsniffer.py 124-143) ----------------------------------
\* the caller calls set_channel(c)
set_channel(c) ==
    /\ phase = "ready" /\ pc = "idle"
    /\ running => nthreads < MaxThreads
    /\ op' = "set_channel" /\ arg' = c /\ result' = "none"
    /\ oplog' = << >>
    /\ pre' = Snapshot
    /\ pc' = "sc_check"
    /\ UNCHANGED <<ctl, was_running, nested, cxfer, cnt, bg>>
    /\ UNCHANGED obs

\* lines 126-131 and 142-143
set_channel_check ==
    /\ pc = "sc_check"
    /\ IF ValidChannel(arg)
       THEN /\ was_running' = running
            /\ pc' = IF running THEN "stop_flag" ELSE "sc_assign"
            /\ nested' = running
            /\ UNCHANGED <<phase, result>>
       ELSE /\ Return("ValueError")
            /\ phase' = IF op = "init" THEN "failed" ELSE phase
    /\ UNCHANGED <<dev, channel, running, thread, op, arg, pre, usb, cnt, bg>>
    /\ UNCHANGED obs

\* line 133
set_channel_assign ==
    /\ pc = "sc_assign"
    /\ channel' = arg
    /\ pc' = "sc_chan0"
    /\ UNCHANGED <<phase, dev, running, thread, call, usb, cnt, bg>>
    /\ UNCHANGED obs

\* line 136
set_channel_chan0 ==
    /\ pc = "sc_chan0"
    /\ Issue(Ctrl(DIR_OUT, SET_CHAN, 0, <<arg>>))
    /\ pc' = "sc_chan0_w"
    /\ UNCHANGED <<ctl, call, cnt, bg>>
    /\ devchan' = arg
    /\ UNCHANGED <<frame, parsed, handled>>

set_channel_chan0_done ==
    /\ pc = "sc_chan0_w"
    /\ Complete
    /\ pc' = "sc_chan1"
    /\ UNCHANGED <<ctl, call, cnt, bg>>
    /\ UNCHANGED obs

\* line 137
set_channel_chan1 ==
    /\ pc = "sc_chan1"
    /\ Issue(Ctrl(DIR_OUT, SET_CHAN, 1, <<0>>))
    /\ pc' = "sc_chan1_w"
    /\ UNCHANGED <<ctl, call, cnt, bg>>
    /\ UNCHANGED obs

\* lines 139-140: call start() again, or return
set_channel_chan1_done ==
    /\ pc = "sc_chan1_w"
    /\ Complete
    /\ IF was_running
       THEN /\ pc' = "start_flag" /\ nested' = TRUE
            /\ UNCHANGED <<phase, result, was_running>>
       ELSE /\ Return("ok")
            /\ phase' = "ready"
    /\ UNCHANGED <<dev, channel, running, thread, op, arg, pre, cnt, bg>>
    /\ UNCHANGED obs

\* ---- start (ccsniffer.py 99-105) -----------------------------------------
\* the caller calls start(); the code does not look at self.running
start ==
    /\ phase = "ready" /\ pc = "idle"
    /\ nthreads < MaxThreads
    /\ op' = "start" /\ result' = "none" /\ nested' = FALSE
    /\ oplog' = << >>
    /\ pre' = Snapshot
    /\ pc' = "start_flag"
    /\ UNCHANGED <<ctl, arg, was_running, cxfer, cnt, bg>>
    /\ UNCHANGED obs

\* line 101
start_flag ==
    /\ pc = "start_flag"
    /\ running' = TRUE
    /\ pc' = "start_send"
    /\ UNCHANGED <<phase, dev, channel, thread, call, usb, cnt, bg>>
    /\ UNCHANGED obs

\* line 102
start_send ==
    /\ pc = "start_send"
    /\ Issue(Ctrl(DIR_OUT, SET_START, 0, << >>))
    /\ pc' = "start_sent"
    /\ UNCHANGED <<ctl, call, cnt, bg>>
    /\ UNCHANGED obs

start_sent ==
    /\ pc = "start_sent"
    /\ Complete
    /\ pc' = "start_thread"
    /\ UNCHANGED <<ctl, call, cnt, bg>>
    /\ UNCHANGED obs

\* lines 103-105: a new thread running recv(); the thread runs from here on,
\* before Thread.start() has returned to the caller
start_thread ==
    /\ pc = "start_thread"
    /\ nthreads < MaxThreads
    /\ nthreads' = nthreads + 1
    /\ thread' = nthreads + 1
    /\ tpc' = [tpc EXCEPT ![nthreads + 1] = "loop"]
    /\ pc' = "start_ret"
    /\ UNCHANGED <<phase, dev, channel, running, call, usb, cnt, exited,
                   delivered>>
    /\ UNCHANGED obs

\* line 105 returns: start() returns, and with it set_channel() when it made
\* the call
start_return ==
    /\ pc = "start_ret"
    /\ Return("ok")
    /\ UNCHANGED <<ctl, op, arg, pre, usb, cnt, bg>>
    /\ UNCHANGED obs

\* ---- stop (ccsniffer.py 108-112) -----------------------------------------
\* the caller calls stop(); the code does not look at self.running
stop ==
    /\ phase = "ready" /\ pc = "idle"
    /\ op' = "stop" /\ result' = "none" /\ nested' = FALSE
    /\ oplog' = << >>
    /\ pre' = Snapshot
    /\ pc' = "stop_flag"
    /\ UNCHANGED <<ctl, arg, was_running, cxfer, cnt, bg>>
    /\ UNCHANGED obs

\* line 110
stop_flag ==
    /\ pc = "stop_flag"
    /\ running' = FALSE
    /\ pc' = "stop_join"
    /\ UNCHANGED <<phase, dev, channel, thread, call, usb, cnt, bg>>
    /\ UNCHANGED obs

\* the thread that self.thread.join() waits for has terminated
Joined(t) == tpc[t] = "dead"

\* line 111: None.join() raises AttributeError; join() blocks until the
\* thread has terminated
stop_join ==
    /\ pc = "stop_join"
    /\ IF thread = None
       THEN Return("AttributeError")
       ELSE /\ Joined(thread)
            /\ pc' = "stop_send"
            /\ UNCHANGED <<result, was_running, nested>>
    /\ UNCHANGED <<ctl, op, arg, pre, usb, cnt, bg>>
    /\ UNCHANGED obs

\* line 112
stop_send ==
    /\ pc = "stop_send"
    /\ Issue(Ctrl(DIR_OUT, SET_STOP, 0, << >>))
    /\ pc' = "stop_sent"
    /\ UNCHANGED <<ctl, call, cnt, bg>>
    /\ UNCHANGED obs

\* stop() returns, to set_channel (line 133) or to the caller
stop_sent ==
    /\ pc = "stop_sent"
    /\ Complete
    /\ IF nested
       THEN pc' = "sc_assign" /\ UNCHANGED <<result, was_running, nested>>
       ELSE Return("ok")
    /\ UNCHANGED <<ctl, op, arg, pre, cnt, bg>>
    /\ UNCHANGED obs

\* ---- __del__ (ccsniffer.py 93-96) ----------------------------------------
\* the finalizer runs (or is called) on a constructed object and on one
\* whose __init__ raised; self.dev is never reset
del ==
    /\ phase \in {"ready", "failed"} /\ pc = "idle"
    /\ dev => poweroffs < MaxPowerOffs
    /\ op' = "del"
    /\ pre' = Snapshot
    /\ IF dev
       THEN /\ cxfer' = Ctrl(DIR_OUT, SET_POWER, 0, << >>)
            /\ oplog' = <<Ctrl(DIR_OUT, SET_POWER, 0, << >>)>>
            /\ poweroffs' = poweroffs + 1
            /\ pc' = "del_sent"
            /\ result' = "none"
            /\ UNCHANGED <<was_running, nested>>
       ELSE /\ cxfer' = cxfer
            /\ oplog' = << >>
            /\ poweroffs' = poweroffs
            /\ Return("ok")
    /\ UNCHANGED <<ctl, arg, polls, bg>>
    /\ UNCHANGED obs

del_sent ==
    /\ pc = "del_sent"
    /\ Complete
    /\ Return("ok")
    /\ UNCHANGED <<ctl, op, arg, pre, cnt, bg>>
    /\ UNCHANGED obs

\* ---- recv (ccsniffer.py 114-121) -----------------------------------------
\* recv() of thread t ends: by leaving the loop ("return"), by the USBError
\* of a timed-out read ("timeout") or by another uncaught exception ("error")
Exit(t, cause) ==
    /\ tpc' = [tpc EXCEPT ![t] = "dead"]
    /\ exited' = IF cause \in {"return", "timeout"} THEN cause ELSE "error"

\* recv() of thread t goes back to line 116
Again(t) ==
    /\ tpc' = [tpc EXCEPT ![t] = "loop"]
    /\ exited' = exited

\* a loop that reads on whatever the flag says
recv_while_noflag(t) ==
    /\ tpc[t] = "loop"
    /\ tpc' = [tpc EXCEPT ![t] = "read"]
    /\ UNCHANGED <<ctl, pc, call, usb, cnt, nthreads, exited, delivered>>
    /\ UNCHANGED obs

\* lines 116-117: while self.running, the next bulk read is submitted
recv_while(t) ==
    /\ tpc[t] = "loop"
    /\ IF running
       THEN /\ tpc' = [tpc EXCEPT ![t] = "read"]
            /\ exited' = exited
       ELSE Exit(t, "return")
    /\ UNCHANGED <<ctl, pc, call, usb, cnt, nthreads, delivered>>
    /\ UNCHANGED obs

\* what recv() does when the read raises USBError: nothing catches it
OnReadError(t, why) == Exit(t, why)

\* line 117: the read raises usb.core.USBError, after DATA_TIMEOUT without
\* data for DATA_TIMEOUT = 2500 ms ("timeout") or on another transport
\* failure ("usberror")
recv_read_raise(t, why) ==
    /\ tpc[t] = "read"
    /\ OnReadError(t, why)
    /\ UNCHANGED <<ctl, pc, call, usb, cnt, nthreads, delivered>>
    /\ UNCHANGED obs

\* a loop body that hands every buffer to parse_packet
Handle_nostatus(ret, ch) ==
    LET r == parse_packet(ret, ch)
    IN  [next |-> IF r.kind = "packet" THEN "sink"
                  ELSE IF r.kind = "none" THEN "loop" ELSE "dead",
         cause |-> IF r.kind = "error" THEN "index_parse" ELSE "none",
         decodes |-> 1,
         sinks |-> IF r.kind = "packet" THEN 1 ELSE 0,
         pkt |-> r.pkt]

\* lines 118-121 on the buffer ret with self.channel = ch: where recv() goes
\* next ("loop": line 116, "sink": inside self.callback, "dead": an
\* IndexError ended recv), the calls of parse_packet and of self.callback
\* made, and the packet handed over.  ret[0] raises IndexError on an empty
\* buffer; a first byte other than 0 skips the buffer.
Handle(ret, ch) ==
    IF Len(ret) = 0
    THEN [next |-> "dead", cause |-> "index_recv", decodes |-> 0,
          sinks |-> 0, pkt |-> NoPkt]
    ELSE IF PyAt(ret, 0) # 0
    THEN [next |-> "loop", cause |-> "none", decodes |-> 0, sinks |-> 0,
          pkt |-> NoPkt]
    ELSE LET r == parse_packet(ret, ch)
         IN  CASE r.kind = "error" ->
                    [next |-> "dead", cause |-> "index_parse", decodes |-> 1,
                     sinks |-> 0, pkt |-> NoPkt]
               [] r.kind = "none" ->
                    [next |-> "loop", cause |-> "none", decodes |-> 1,
                     sinks |-> 0, pkt |-> NoPkt]
               [] r.kind = "packet" ->
                    [next |-> "sink", cause |-> "none", decodes |-> 1,
                     sinks |-> 1, pkt |-> r.pkt]

\* lines 117-121: the read returns ret and the loop body runs on it, up to
\* the call of self.callback
recv_read_data(t, ret) ==
    /\ tpc[t] = "read"
    /\ LET h == Handle(ret, channel)
       IN  /\ IF h.next = "dead"
              THEN Exit(t, h.cause)
              ELSE /\ tpc' = [tpc EXCEPT ![t] = h.next]
                   /\ exited' = exited
           /\ delivered' = IF h.sinks = 1 THEN h.pkt ELSE delivered
    /\ UNCHANGED <<ctl, pc, call, usb, cnt, nthreads>>
    /\ UNCHANGED obs

\* line 121: self.callback(packet) returns, or raises and ends recv()
recv_callback(t, raises) ==
    /\ tpc[t] = "sink"
    /\ IF raises THEN Exit(t, "callback") ELSE Again(t)
    /\ UNCHANGED <<ctl, pc, call, usb, cnt, nthreads, delivered>>
    /\ UNCHANGED obs

\* ---- the program --------------------------------------------------------
\* the caller's steps, with channel arguments drawn from chans
CallerStepsOn(chans) ==
    \/ \E c \in chans : init(c)
    \/ \E f \in {"found", "absent", "denied"} : init_find(f)
    \/ init_ident
    \/ init_ident_done
    \/ init_power
    \/ init_power_done
    \/ init_poll
    \/ \E st \in {0, POWERED} : init_poll_done(st)
    \/ \E c \in chans : set_channel(c)
    \/ set_channel_check
    \/ set_channel_assign
    \/ set_channel_chan0
    \/ set_channel_chan0_done
    \/ set_channel_chan1
    \/ set_channel_chan1_done
    \/ start_flag
    \/ start_send
    \/ start_sent
    \/ start_thread
    \/ start_return
    \/ stop
    \/ stop_flag
    \/ stop_join
    \/ stop_send
    \/ stop_sent
    \/ del
    \/ del_sent

CallerSteps == CallerStepsOn(ChanInputs)

\* a step of recv() in thread t
recv(t) ==
    \/ recv_while(t)
    \/ \E ret \in Buffers : recv_read_data(t, ret)
    \/ \E why \in {"timeout", "usberror"} : recv_read_raise(t, why)
    \/ \E raises \in BOOLEAN : recv_callback(t, raises)

Receiver == \E t \in Threads : recv(t)

Next == CallerSteps \/ start \/ Receiver

Spec == Init /\ [][Next]_vars

\* the same program driven by a caller that keeps to the documented use of
\* start(): it is only called while the controller is not running
NextDisciplined == CallerSteps \/ (~running /\ start) \/ Receiver

SpecDisciplined == Init /\ [][NextDisciplined]_vars

\* the statements of stop() once it has been called
StopSteps == stop_flag \/ stop_join \/ stop_send \/ stop_sent

\* the statements of __init__ once it has been called, with those of the
\* set_channel it calls at line 89
InitSteps ==
    /\ op = "init"
    /\ \/ \E f \in {"found", "absent", "denied"} : init_find(f)
       \/ init_ident
       \/ init_ident_done
       \/ init_power
       \/ init_power_done
       \/ init_poll
       \/ \E st \in {0, POWERED} : init_poll_done(st)
       \/ set_channel_check
       \/ set_channel_assign
       \/ set_channel_chan0
       \/ set_channel_chan0_done
       \/ set_channel_chan1
       \/ set_channel_chan1_done

\* the program with every channel argument the default channel
NextFair == CallerStepsOn({DEFAULT_CHANNEL}) \/ start \/ Receiver

\* scheduling: every thread that can run does run (each recv thread, and the
\* caller inside stop() and inside __init__); every transfer completes, every
\* read returns or raises and every callback returns or raises.  What the
\* device answers, and whether the caller makes a further call, is left open.
SpecFair ==
    /\ Init /\ [][NextFair]_vars
    /\ WF_vars(StopSteps)
    /\ WF_vars(InitSteps)
    /\ \A t \in Threads : WF_vars(recv(t))

\* ---- parse_packet and the loop body on their own --------------------------
\* buffers of n bytes: filler bytes, the two trailing bytes f1 f2, and then
\* byte[0] = b0, byte[1] = b1, byte[7] = b7 wherever the buffer has them
Fill(n) == [i \in 1 .. n |-> (7 * i) % 256]
Put(s, i, b) == IF i >= 0 /\ i < Len(s) THEN [s EXCEPT ![i + 1] = b] ELSE s
Buf(n, b0, b1, b7, f1, f2) ==
    Put(Put(Put(Put(Put(Fill(n), n - 2, f1), n - 1, f2), 0, b0), 1, b1), 7, b7)

\* every length, status 0 or not, declared lengths right or wrong
FramesOfLen(n) ==
    {Buf(n, b0, b1, b7, f1, f2) :
        b0 \in {0, 1},
        b1 \in {Max(n - 3, 0), 0}, b7 \in {Max(n - 8, 0), 2, 5},
        f1 \in {0, 214}, f2 \in {0, 133}}

FramesByShape == UNION {FramesOfLen(n) : n \in 0 .. MaxBufLen}

\* well-formed frames with a one-byte payload and every value of the two
\* trailing bytes
FramesBySignal ==
    {Buf(11, 0, 8, 3, f1, f2) : f1 \in 0 .. 255, f2 \in {0, 133}}
        \cup {Buf(11, 0, 8, 3, f1, f2) : f1 \in {0, 214}, f2 \in 0 .. 255}

\* status 0, payload 01 02 03, fcs1 = fcs2 = 0
FrameExample == <<0, 10, 0, 9, 9, 9, 9, 5, 1, 2, 3, 0, 0>>

Frames == FramesByShape \cup FramesBySignal \cup {FrameExample} \cup Buffers

InitDecode ==
    \E ch \in {DEFAULT_CHANNEL, 15}, f \in Frames : InitWith("ready", ch, f)

\* parse_packet(frame) is called
decode ==
    /\ parsed = NoParse
    /\ parsed' = parse_packet(frame, channel)
    /\ UNCHANGED <<ctl, pc, call, usb, cnt, bg, devchan, frame, handled>>

\* the body of recv's loop runs with ret = frame
handle ==
    /\ handled = NoHandle
    /\ handled' = Handle(frame, channel)
    /\ UNCHANGED <<ctl, pc, call, usb, cnt, bg, devchan, frame, parsed>>

NextDecode == decode \/ handle

SpecDecode == InitDecode /\ [][NextDecode]_vars

\* ==== properties ==========================================================
StopCmd == Ctrl(DIR_OUT, SET_STOP, 0, << >>)
StartCmd == Ctrl(DIR_OUT, SET_START, 0, << >>)
ChanCmd(c) == Ctrl(DIR_OUT, SET_CHAN, 0, <<c>>)
ChanCmd1 == Ctrl(DIR_OUT, SET_CHAN, 1, <<0>>)
InRange(c) == 11 <= c /\ c <= 26

\* C1: while the stop-streaming command (0xD1) is in flight, running has been
\* cleared, the loop of self.thread has terminated and no bulk read started
\* by a receive loop of this controller is in flight.
C1_StopAfterJoin ==
    cxfer = StopCmd =>
        /\ ~running
        /\ thread # None /\ tpc[thread] = "dead"
        /\ Reading = {}

\* C2: at most one transfer, control or bulk, is in flight on the device
\* handle at any time.
C2_OneTransferInFlight == InFlight <= 1

\* C3: when set_channel(c), 11 <= c <= 26, called while streaming returns:
\* running is true, channel = c, self.thread is a new loop and the only loop
\* alive (every loop active before the call has terminated), and the
\* transfers of the call were stop, select-channel (c), select-channel
\* follow-up, start, in that order.
C3_SetChannelRecycles ==
    [][(pc = "start_ret" /\ pc' = "idle" /\ op = "set_channel") =>
          /\ running'
          /\ channel' = arg /\ InRange(arg)
          /\ thread' # pre.thread
          /\ Alive' = {thread'}
          /\ oplog' = <<StopCmd, ChanCmd(arg), ChanCmd1, StartCmd>>]_vars

\* C4: set_channel(c) with c < 11 or c > 26 raises the invalid-channel error
\* (ValueError) and changes nothing: channel, running and self.thread are as
\* at the call, and no control transfer was issued.
C4_InvalidChannelRejected ==
    (op = "set_channel" /\ ~InRange(arg)) =>
        /\ pc \in {"sc_check", "idle"}
        /\ pc = "idle" => result = "ValueError"
        /\ channel = pre.channel
        /\ running = pre.running
        /\ thread = pre.thread
        /\ oplog = << >> /\ cxfer = NoXfer

\* C4 witness: set_channel(27) was rejected while a receive loop was reading.
C4_Witness ==
    /\ pc = "idle" /\ op = "set_channel" /\ arg = 27
    /\ result = "ValueError"
    /\ running /\ thread # None /\ tpc[thread] = "read"
    /\ channel = 15

\* C5: once the constructor has begun, the channel field is within 11..26.
C5_ChannelInRange == op # "none" => InRange(channel)

\* C6: start() called while running sends no start command, launches no
\* loop, does not return normally and leaves running, channel and
\* self.thread as they were.
C6_StartRejectedWhileRunning ==
    (op = "start" /\ pre.running) =>
        /\ oplog = << >>
        /\ thread = pre.thread
        /\ running = pre.running /\ channel = pre.channel
        /\ pc = "idle" => result # "ok"

\* C7: stop() called while not running sends no stop command, does not
\* return normally and leaves the controller as it was.
C7_StopRejectedWhileIdle ==
    (op = "stop" /\ ~pre.running) =>
        /\ oplog = << >>
        /\ thread = pre.thread
        /\ running = pre.running /\ channel = pre.channel
        /\ pc = "idle" => result # "ok"

\* C8: at most one receive loop of the controller is alive at any time.
C8_OneLoopAlive == Cardinality(Alive) <= 1

\* C9: between calls, running is true exactly when a receive loop is alive.
C9_RunningIffLoopAlive ==
    (phase = "ready" /\ pc = "idle") => (running <=> Alive # {})

\* C10: a read that times out never ends the receive loop.
C10_TimeoutKeepsLoop == exited # "timeout"

\* C11: while running is cleared no receive loop passes line 116 to start
\* another read (only a read submitted before is still completed); a step of
\* a receive loop issues no control transfer; the loop stop() joins
\* terminates, and stop() returns.
StopPcs == {"stop_flag", "stop_join", "stop_send", "stop_sent"}
C11_StopTerminates ==
    /\ [][\A t \in Threads :
            /\ (~running /\ tpc[t] = "loop") => tpc'[t] \in {"loop", "dead"}
            /\ tpc'[t] # tpc[t] => (cxfer' = cxfer /\ oplog' = oplog)]_vars
    /\ (pc = "stop_join" /\ thread # None)
          ~> (thread # None /\ tpc[thread] = "dead")
    /\ (pc \in StopPcs) ~> (pc \notin StopPcs)

\* C11 witness: stop() has returned after joining a loop that was alive when
\* the flag was cleared and left through line 116.
C11_Witness ==
    /\ pc = "idle" /\ op = "stop" /\ result = "ok"
    /\ pre.running /\ thread # None /\ tpc[thread] = "dead"
    /\ exited = "return"
    /\ oplog = <<StopCmd>>

\* ---- the loop body and the decoder (SpecDecode) ---------------------------
Skipped == handled.decodes = 0 /\ handled.sinks = 0 /\ handled.next = "loop"

\* C12: a buffer whose first byte is not 0 is skipped, with no call of the
\* decoder and none of the sink; on a first byte of 0 the decoder is called
\* once, and the sink once, with the decoder's Packet, exactly when the decoder
\* gave one.
C12_StatusByteGatesDecode ==
    (handled # NoHandle /\ Len(frame) > 0) =>
        LET r == parse_packet(frame, channel)
        IN  /\ frame[1] # 0 => Skipped
            /\ frame[1] = 0 =>
                  /\ handled.decodes = 1
                  /\ handled.sinks = (IF r.kind = "packet" THEN 1 ELSE 0)
                  /\ handled.sinks = 1 => handled.pkt = r.pkt

\* a frame of status 0 went through the decoder and its Packet to the sink
C12_Witness ==
    /\ frame = BufFrame
    /\ handled.decodes = 1 /\ handled.sinks = 1 /\ handled.next = "sink"
    /\ handled.pkt.payload = <<170>>

\* C13: no Packet when byte[1] # len - 3, none when byte[7] - 2 is not the
\* length of buffer[8:-2]; a Packet has payload = buffer[8:-2], of byte[7] - 2
\* bytes, and header = buffer[3:7].
C13_LengthChecksAndFields ==
    parsed # NoParse =>
        LET n == Len(frame)
            body == SubSeq(frame, 9, n - 2)
        IN  /\ (n >= 2 /\ frame[2] # n - 3) => parsed.kind # "packet"
            /\ (n >= 8 /\ frame[8] - 2 # Len(body)) => parsed.kind # "packet"
            /\ parsed.kind = "packet" =>
                  /\ parsed.pkt.payload = body
                  /\ Len(parsed.pkt.payload) = frame[8] - 2
                  /\ parsed.pkt.header = SubSeq(frame, 4, 7)

\* the 13-byte frame with payload 01 02 03 was decoded
C13_Witness ==
    /\ frame = FrameExample
    /\ parsed.kind = "packet"
    /\ parsed.pkt.payload = <<1, 2, 3>>
    /\ parsed.pkt.header = <<9, 9, 9, 9>>

Signed8(b) == IF b >= 128 THEN b - 256 ELSE b

\* C14: of an accepted buffer with trailing bytes fcs1, fcs2: rssi is fcs1
\* read as a signed byte, minus 73, within -201 .. 54; crc_ok is bit 7 of
\* fcs2; correlation is the low seven bits of fcs2, within 0 .. 127; 0xD6
\* gives rssi -115, 0x85 gives crc_ok and correlation 5.
C14_SignalFields ==
    parsed.kind = "packet" =>
        LET fcs1 == frame[Len(frame) - 1]
            fcs2 == frame[Len(frame)]
            p == parsed.pkt
        IN  /\ p.rssi = Signed8(fcs1) - 73
            /\ p.rssi >= -201 /\ p.rssi <= 54
            /\ p.crc_ok = (fcs2 >= 128)
            /\ p.correlation = (IF fcs2 >= 128 THEN fcs2 - 128 ELSE fcs2)
            /\ p.correlation >= 0 /\ p.correlation <= 127
            /\ fcs1 = 214 => p.rssi = -115
            /\ fcs2 = 133 => (p.crc_ok /\ p.correlation = 5)

\* a frame ending D6 85 was decoded
C14_Witness ==
    /\ parsed.kind = "packet"
    /\ frame[Len(frame) - 1] = 214 /\ frame[Len(frame)] = 133
    /\ parsed.pkt.rssi = -115 /\ parsed.pkt.crc_ok /\ parsed.pkt.correlation = 5

\* C15: the body of the loop, on any buffer, ends with a Packet handed to the
\* sink or with the buffer dropped, and recv goes on; no error is raised.
C15_EveryBufferHandled ==
    handled # NoHandle =>
        /\ handled.next \in {"loop", "sink"}
        /\ handled.cause = "none"

\* C20: an accepted buffer is payload plus ten bytes, so that the two trailing
\* bytes lie behind byte 7.
C20_RegionsDisjoint ==
    parsed.kind = "packet" =>
        /\ Len(frame) = Len(parsed.pkt.payload) + 10
        /\ frame[2] = frame[8] + 5
        /\ Len(frame) >= 10

\* ---- channel stamp, construction, teardown --------------------------------
PowerCmd(idx) == Ctrl(DIR_OUT, SET_POWER, idx, << >>)
Sent(x) == \E i \in 1 .. Len(oplog) : oplog[i] = x

\* C16: while a read is in flight neither self.channel nor the channel the
\* device was told changes, and the Packet made of the buffer it returns
\* carries that channel.
C16_ChannelStamp ==
    [][\A t \in Threads :
          tpc[t] = "read" =>
              /\ channel' = channel
              /\ devchan' = devchan
              /\ tpc'[t] = "sink" =>
                    (delivered'.channel = channel /\ channel = devchan)]_vars

\* C17: a construction that has begun ends, whatever the device answers.
C17_ConstructionTerminates ==
    (phase = "new" /\ op = "init") ~> (pc = "idle")

\* C18: the power-off command is sent at most once, and after it no further
\* transfer goes to the device.
C18_PowerOffOnce ==
    /\ poweroffs <= 1
    /\ poweroffs = 1 => (cxfer # NoXfer => cxfer = PowerCmd(0))

\* C19: a construction that failed on its channel argument has not powered
\* the radio and has left no out-of-range channel in self.channel.
C19_FailedConstructionLeavesNoTrace ==
    (phase = "failed" /\ op = "init" /\ result = "ValueError") =>
        /\ ~Sent(PowerCmd(POWERED))
        /\ InRange(channel)

====
